---- MODULE Spec2Model ----
(***************************************************************************)
(* Model of the Okta REST client of ShoppingDem/backend                    *)
(* (src/shop/pkg/models/user.go, package auth): RegisterUser, GetUser,     *)
(* GetUserFactors, VerifyEmailOrPhone, VerifyPasscode and makeRequest,     *)
(* together with the caller of ExampleAuth_VerifyEmailOrPhone and the      *)
(* identity provider that answers the requests.                            *)
(*                                                                         *)
(* A call is cut at its blocking points (HTTPClient.Do).  pc names the     *)
(* request the call is waiting on; the locals of the Go frame (user,       *)
(* factors, factorID, factorType) exist while the call runs and are gone   *)
(* when it returns.  reqs and lastOut observe the wire.                    *)
(***************************************************************************)
EXTENDS Integers, Sequences, FiniteSets, TLC

\* ------------------------------------------------------------------ bounds
\* longest factor list the provider returns
MaxFactors == 2

\* ------------------------------------------------------- values and inputs
StatusOK == 200
StatusAccepted == 202
StatusMultipleChoices == 300

\* statuses the provider answers with
Statuses == {200, 202, 204, 404}

\* an identifier whose URL http.NewRequestWithContext rejects (bad escape)
BadIdent == "%zz"
Identifiers == {"a@x.com", "+1555", "u1", BadIdent}
Passcodes == {"123456", "000000"}
\* sessionToken of a verify response that has one; an object without the
\* key (an ErrorResponse) decodes to ""
Tokens == {"tok123"}

CtxStates == {"live", "cancelled", "deadline"}

\* a JSON value read through a .(string) type assertion
JStr(s) == [str |-> TRUE, v |-> s]
JOther == [str |-> FALSE, v |-> ""]

\* one element of the decoded []interface{}
FactorObj(p, t, i) == [obj |-> TRUE, provider |-> p, factorType |-> t, id |-> i]
NotObject == [obj |-> FALSE, provider |-> JOther, factorType |-> JOther, id |-> JOther]

FactorEntries ==
    { FactorObj(JStr("OKTA"), JStr("email"), JStr("f1")),
      FactorObj(JStr("OKTA"), JStr("sms"), JStr("f2")),
      FactorObj(JStr("OKTA"), JStr("email"), JOther),
      FactorObj(JStr("OKTA"), JStr("push"), JStr("f3")),
      FactorObj(JStr("GOOGLE"), JStr("email"), JStr("f4")),
      FactorObj(JOther, JStr("sms"), JStr("f5")),
      FactorObj(JStr("OKTA"), JOther, JStr("f6")),
      NotObject }

SeqsUpTo(S, n) == UNION { [1..k -> S] : k \in 0..n }
FactorLists == SeqsUpTo(FactorEntries, MaxFactors)

\* type User (ID and Profile; Status is never read)
MkUser(i, e, m) == [ID |-> i, Email |-> e, MobilePhone |-> m]
ZeroUser == MkUser("", "", "")
Users == { MkUser("u1", e, m) : e \in {"", "a@x.com"}, m \in {"", "+1555"} }

\* response bodies: not JSON at all, a JSON array, or a JSON object whose
\* absent keys read as "" in the struct it is decoded into
Body(k, its, i, e, m, tok, code, sum) ==
    [kind |-> k, items |-> its, id |-> i, email |-> e, mobilePhone |-> m,
     sessionToken |-> tok, errorCode |-> code, errorSummary |-> sum]
Garbage == Body("garbage", <<>>, "", "", "", "", "", "")
ArrayBody(fs) == Body("array", fs, "", "", "", "", "", "")
UserBody(u) == Body("object", <<>>, u.ID, u.Email, u.MobilePhone, "", "", "")
TokenBody(t) == Body("object", <<>>, "", "", "", t, "", "")
ErrorBody(code, sum) == Body("object", <<>>, "", "", "", "", code, sum)

ErrorBodies == { ErrorBody("E0000007", "Not found") }
UserBodies == { UserBody(u) : u \in Users }
TokenBodies == { TokenBody(t) : t \in Tokens }
ArrayBodies == { ArrayBody(fs) : fs \in FactorLists }

\* what the provider may answer to the request the call waits on
ProviderBodies(step) ==
    {Garbage} \cup ErrorBodies \cup
    CASE step = "GetUserFactors" -> ArrayBodies
      [] step = "verify" -> TokenBodies
      [] OTHER -> UserBodies

\* the answers of the provider: a status and a body; a factor list comes
\* with 200, the other statuses carry at most the empty array
ProviderAnswers(step) ==
    { a \in Statuses \X ProviderBodies(step) :
        a[2].kind = "array" => (a[1] = StatusOK \/ a[2].items = <<>>) }

\* ------------------------------------------------------------------ errors
Err(k, m, ft, st, sum, c) ==
    [kind |-> k, msg |-> m, ftype |-> ft, status |-> st, summary |-> sum, cause |-> c]
NoErr == Err("nil", "", "", 0, "", "")

ErrValidation ==
    Err("validation", "at least one of email or mobilePhone must be provided for registration",
        "", 0, "", "")
ErrCreateRequest == Err("create", "failed to create request", "", 0, "", "bad url")
ErrTimedOut(c) == Err("timeout", "request timed out", "", 0, "", c)
ErrRequestFailed(c) == Err("network", "request failed", "", 0, "", c)
ErrDecode(m, st) == Err("decode", m, "", st, "", "json")
ErrProvider(m, ft, st, sum) == Err("provider", m, ft, st, sum, "")
ErrFactorNotFound == Err("notfound", "email or SMS factor not found for user", "", 0, "", "")

\* causes of a HTTPClient.Do that fails after it sent the request (a
\* deadline that passes during the request ends it as the client timeout
\* does, with "request timed out"), and (*url.Error).Timeout()
DoCauses == {"context canceled", "Client.Timeout exceeded", "connection refused"}
UrlErrTimeout(c) == c \in {"context deadline exceeded", "Client.Timeout exceeded"}

\* what HTTPClient.Do returned: a response, or an error makeRequest wrapped
NoOut == [kind |-> "none", status |-> 0, body |-> Garbage, err |-> NoErr]
RespOut(st, b) == [kind |-> "resp", status |-> st, body |-> b, err |-> NoErr]
ErrOut(e) == [kind |-> "err", status |-> 0, body |-> Garbage, err |-> e]

\* --------------------------------------------------------------- the state
VARIABLES
    o,            \* the Auth client built by New
    ctx,          \* state of the context of the running call, "none" without one
    op,           \* the public operation that runs or ran last
    args,         \* its arguments (ctx: state of the context when passed)
    pc,           \* "idle", the request the call waits on, or "done"
    user,         \* local: *User returned by GetUser
    factors,      \* local: list returned by GetUserFactors
    factorID,     \* local
    factorType,   \* local
    result,       \* (value, error) returned by the call
    reqs,         \* makeRequest invocations of the call, in order
    lastOut,      \* what the latest HTTPClient.Do the call waited on returned
    kept,         \* caller: the latest successful verification call, the
                  \* value it returned (sessionToken or clientID) and the
                  \* factor its POST addressed
    other,        \* the frame of a second call on the same client, made from
                  \* another goroutine, while that goroutine does not run
    world,        \* the provider, when its answers are fixed per endpoint
    sdk           \* package internal/auth: the call of ValidateUser, if any

vars == <<o, ctx, op, args, pc, user, factors, factorID, factorType, result,
          reqs, lastOut, kept, other, world, sdk>>

\* func New
New(domain, apiToken, clientID, clientSecret) ==
    [Domain |-> domain, APIToken |-> apiToken, ClientID |-> clientID,
     ClientSecret |-> clientSecret, HTTPClient |-> [Timeout |-> 10]]

\* type RegistrationRequest / UserProfile
MkRegistration(e, m, l, act) ==
    [Profile |-> [FirstName |-> "John", LastName |-> "Doe", Email |-> e,
                  MobilePhone |-> m, Login |-> l],
     Activate |-> act, SendEmail |-> TRUE, SendSMS |-> FALSE]
ZeroRegistration == MkRegistration("", "", "", FALSE)
Registrations ==
    { MkRegistration(e, m, l, act) :
        e \in {"", "a@x.com"}, m \in {"", "+1555"}, l \in {"", "jdoe"}, act \in BOOLEAN }

\* ---------------------------------------------------------- URLs, requests
FormatBool(b) == IF b THEN "true" ELSE "false"
URL(d, i, suffix, f, q) == [domain |-> d, id |-> i, sub |-> suffix, fid |-> f, query |-> q]
\* "%s/api/v1/users?activate=%t"
UsersURL(d, activate) == URL(d, "", "", "", FormatBool(activate))
\* "%s/api/v1/users/%s"
UserURL(d, identifier) == URL(d, identifier, "", "", "")
\* "%s/api/v1/users/%s/factors"
FactorsURL(d, userID) == URL(d, userID, "factors", "", "")
\* "%s/api/v1/users/%s/factors/%s/verify"
VerifyURL(d, userID, fid) == URL(d, userID, "factors/verify", fid, "")

\* url.Parse inside http.NewRequestWithContext
ValidURL(u) == u.id # BadIdent /\ u.fid # BadIdent

NilBody == [kind |-> "nil"]
\* json.Marshal(req) of a RegistrationRequest
MarshalRegistration(r) ==
    [kind |-> "registration", firstName |-> r.Profile.FirstName,
     lastName |-> r.Profile.LastName, email |-> r.Profile.Email,
     mobilePhone |-> r.Profile.MobilePhone, login |-> r.Profile.Login,
     activate |-> r.Activate, sendEmail |-> r.SendEmail, sendSMS |-> r.SendSMS]
\* json.Marshal(verifyReq) of a VerifyFactorRequest
MarshalVerify(v) == [kind |-> "verify", passCode |-> v.PassCode, stateToken |-> v.StateToken]

\* type VerifyFactorRequest; a field left out of the literal is ""
VerifyFactorRequest(passcode) == [PassCode |-> passcode, StateToken |-> ""]

NoHeader == [Accept |-> "", ContentType |-> "", Authorization |-> <<>>]
Invocation(method, url, body, header, sent) ==
    [method |-> method, url |-> url, body |-> body, header |-> header, sent |-> sent]

\* Do of a request whose context is done: the transport returns ctx.Err()
\* without writing the request
CtxCause(c) == IF c = "deadline" THEN "context deadline exceeded" ELSE "context canceled"

\* variant: the test of urlErr.Timeout() is missing
TransportErrAlwaysFailed(cause) == ErrRequestFailed(cause)

\* makeRequest from a failed Do: timeout or generic failure
TransportErr(cause) ==
    IF UrlErrTimeout(cause) THEN ErrTimedOut(cause) ELSE ErrRequestFailed(cause)

\* variant: the request is built without the context (http.NewRequest), so
\* a context that is done does not stop it
MakeRequestWithoutContext(client, c, method, url, body) ==
    IF ~ValidURL(url)
    THEN [err |-> ErrCreateRequest, inv |-> Invocation(method, url, body, NoHeader, FALSE)]
    ELSE [err |-> NoErr,
          inv |-> Invocation(method, url, body,
                             [Accept |-> "application/json",
                              ContentType |-> "application/json",
                              Authorization |-> <<"SSWS ", client.APIToken>>], TRUE)]

\* variant: Content-Type is set only on a request that has a body
MakeRequestContentTypeWithBody(client, c, method, url, body) ==
    IF ~ValidURL(url)
    THEN [err |-> ErrCreateRequest, inv |-> Invocation(method, url, body, NoHeader, FALSE)]
    ELSE LET header == [Accept |-> "application/json",
                        ContentType |-> IF body = NilBody THEN ""
                                        ELSE "application/json",
                        Authorization |-> <<"SSWS ", client.APIToken>>]
         IN IF c # "live"
            THEN [err |-> TransportErr(CtxCause(c)),
                  inv |-> Invocation(method, url, body, header, FALSE)]
            ELSE [err |-> NoErr, inv |-> Invocation(method, url, body, header, TRUE)]

\* makeRequest up to the point where Do blocks: err is set when it returned
\* already, inv is what it did
MakeRequest(client, c, method, url, body) ==
    IF ~ValidURL(url)
    THEN [err |-> ErrCreateRequest, inv |-> Invocation(method, url, body, NoHeader, FALSE)]
    ELSE LET header == [Accept |-> "application/json",
                        ContentType |-> "application/json",
                        Authorization |-> <<"SSWS ", client.APIToken>>]
         IN IF c # "live"
            THEN [err |-> TransportErr(CtxCause(c)),
                  inv |-> Invocation(method, url, body, header, FALSE)]
            ELSE [err |-> NoErr, inv |-> Invocation(method, url, body, header, TRUE)]

\* ------------------------------------------- handling of a makeRequest outcome
Decodable(b) == b.kind = "object"
Is2xx(st) == st >= StatusOK /\ st < StatusMultipleChoices

\* "Handle API errors." block shared by all operations
APIError(msg, ft, out) ==
    IF Decodable(out.body)
    THEN ErrProvider(msg, ft, out.status, out.body.errorSummary)
    ELSE ErrDecode("failed to decode error response", out.status)

\* variant: the ID of the decoded user is returned
RegisterUserResultUserID(client, out) ==
    IF out.kind = "err" THEN [val |-> "", err |-> out.err]
    ELSE IF Is2xx(out.status)
         THEN IF Decodable(out.body)
              THEN [val |-> out.body.id, err |-> NoErr]
              ELSE [val |-> "", err |-> ErrDecode("failed to decode user response", 0)]
         ELSE [val |-> "", err |-> APIError("failed to register user", "", out)]

\* RegisterUser after makeRequest
RegisterUserResult(client, out) ==
    IF out.kind = "err" THEN [val |-> "", err |-> out.err]
    ELSE IF Is2xx(out.status)
         THEN IF Decodable(out.body)
              THEN [val |-> client.ClientID, err |-> NoErr]
              ELSE [val |-> "", err |-> ErrDecode("failed to decode user response", 0)]
         ELSE [val |-> "", err |-> APIError("failed to register user", "", out)]

\* variant: every 2xx status is taken as success, as in RegisterUser
GetUserResultAny2xx(out) ==
    IF out.kind = "err" THEN [val |-> ZeroUser, err |-> out.err]
    ELSE IF Is2xx(out.status)
         THEN IF Decodable(out.body)
              THEN [val |-> MkUser(out.body.id, out.body.email, out.body.mobilePhone),
                    err |-> NoErr]
              ELSE [val |-> ZeroUser, err |-> ErrDecode("failed to decode user response", 0)]
         ELSE [val |-> ZeroUser, err |-> APIError("failed to get user", "", out)]

\* GetUser after makeRequest
GetUserResult(out) ==
    IF out.kind = "err" THEN [val |-> ZeroUser, err |-> out.err]
    ELSE IF out.status = StatusOK
         THEN IF Decodable(out.body)
              THEN [val |-> MkUser(out.body.id, out.body.email, out.body.mobilePhone),
                    err |-> NoErr]
              ELSE [val |-> ZeroUser, err |-> ErrDecode("failed to decode user response", 0)]
         ELSE [val |-> ZeroUser, err |-> APIError("failed to get user", "", out)]

\* GetUserFactors after makeRequest
GetUserFactorsResult(out) ==
    IF out.kind = "err" THEN [val |-> <<>>, err |-> out.err]
    ELSE IF out.status = StatusOK
         THEN IF out.body.kind = "array"
              THEN [val |-> out.body.items, err |-> NoErr]
              ELSE [val |-> <<>>, err |-> ErrDecode("failed to decode factors response", 0)]
         ELSE [val |-> <<>>, err |-> APIError("failed to get user factors", "", out)]

\* variant: every 2xx status is taken as success, as in VerifyPasscode
ChallengeResultAny2xx(ft, out) ==
    IF out.kind = "err" THEN [val |-> "", err |-> out.err]
    ELSE IF ~Is2xx(out.status)
         THEN [val |-> "", err |-> APIError("failed to trigger %s verification", ft, out)]
         ELSE IF Decodable(out.body)
              THEN [val |-> out.body.sessionToken, err |-> NoErr]
              ELSE [val |-> "", err |-> ErrDecode("failed to decode verification response", 0)]

\* VerifyEmailOrPhone after the challenge POST
ChallengeResult(ft, out) ==
    IF out.kind = "err" THEN [val |-> "", err |-> out.err]
    ELSE IF out.status # StatusOK /\ out.status # StatusAccepted
         THEN [val |-> "", err |-> APIError("failed to trigger %s verification", ft, out)]
         ELSE IF Decodable(out.body)
              THEN [val |-> out.body.sessionToken, err |-> NoErr]
              ELSE [val |-> "", err |-> ErrDecode("failed to decode verification response", 0)]

\* variant: the response is decoded and its sessionToken returned
PasscodeResultFromBody(client, ft, out) ==
    IF out.kind = "err" THEN [val |-> "", err |-> out.err]
    ELSE IF Is2xx(out.status)
         THEN IF Decodable(out.body)
              THEN [val |-> out.body.sessionToken, err |-> NoErr]
              ELSE [val |-> "", err |-> ErrDecode("failed to decode verification response", 0)]
         ELSE [val |-> "", err |-> APIError("failed to verify %s", ft, out)]

\* VerifyPasscode after the verify POST
PasscodeResult(client, ft, out) ==
    IF out.kind = "err" THEN [val |-> "", err |-> out.err]
    ELSE IF Is2xx(out.status)
         THEN [val |-> client.ClientID, err |-> NoErr]
         ELSE [val |-> "", err |-> APIError("failed to verify %s", ft, out)]

\* ---------------------------------------------------------- factor matching
\* v, ok := x.(string)
AsString(j) == [s |-> IF j.str THEN j.v ELSE "", ok |-> j.str]

\* variant: the profile field is not required to be set
MatchesEmailOrPhoneAnyProfile(u, fType, identifier) ==
    \/ fType = "email" /\ (identifier = u.Email \/ identifier = u.ID)
    \/ fType = "sms" /\ (identifier = u.MobilePhone \/ identifier = u.ID)

\* the condition of the if inside the loop of VerifyEmailOrPhone
MatchesEmailOrPhone(u, fType, identifier) ==
    \/ fType = "email" /\ u.Email # "" /\ (identifier = u.Email \/ identifier = u.ID)
    \/ fType = "sms" /\ u.MobilePhone # "" /\ (identifier = u.MobilePhone \/ identifier = u.ID)

\* variant: the copy lost the lookup by ID of its SMS branch
MatchesPasscodeSmsByPhoneOnly(u, fType, identifier) ==
    \/ fType = "email" /\ u.Email # "" /\ (identifier = u.Email \/ identifier = u.ID)
    \/ fType = "sms" /\ u.MobilePhone # "" /\ identifier = u.MobilePhone

\* the condition of the if inside the loop of VerifyPasscode
MatchesPasscode(u, fType, identifier) ==
    \/ fType = "email" /\ u.Email # "" /\ (identifier = u.Email \/ identifier = u.ID)
    \/ fType = "sms" /\ u.MobilePhone # "" /\ (identifier = u.MobilePhone \/ identifier = u.ID)

NoFactor == [factorID |-> "", factorType |-> ""]

\* variant: an email factor that matches is preferred to an SMS factor
ScanEmailOrPhonePreferEmail(u, fs, identifier, i) ==
    LET hit(j) == /\ fs[j].obj /\ fs[j].provider = JStr("OKTA") /\ fs[j].factorType.str
                  /\ MatchesEmailOrPhone(u, fs[j].factorType.v, identifier)
        hits == { j \in i..Len(fs) : hit(j) }
        emails == { j \in hits : fs[j].factorType.v = "email" }
        from == IF emails # {} THEN emails ELSE hits
        k == CHOOSE j \in from : \A l \in from : j <= l
    IN IF hits = {} THEN NoFactor
       ELSE [factorID |-> AsString(fs[k].id).s, factorType |-> fs[k].factorType.v]

\* variant: the loop without its break, the last match wins
RECURSIVE ScanEmailOrPhoneNoBreak(_, _, _, _)
ScanEmailOrPhoneNoBreak(u, fs, identifier, i) ==
    IF i > Len(fs) THEN NoFactor
    ELSE LET f == fs[i]
             provider == AsString(f.provider)
             fType == AsString(f.factorType)
             later == ScanEmailOrPhoneNoBreak(u, fs, identifier, i + 1)
         IN IF later # NoFactor THEN later
            ELSE IF f.obj /\ provider.ok /\ provider.s = "OKTA" /\ fType.ok
                    /\ MatchesEmailOrPhone(u, fType.s, identifier)
                 THEN [factorID |-> AsString(f.id).s, factorType |-> fType.s]
            ELSE NoFactor

\* for _, f := range factors { ... } of VerifyEmailOrPhone, from index i on
RECURSIVE ScanEmailOrPhone(_, _, _, _)
ScanEmailOrPhone(u, fs, identifier, i) ==
    IF i > Len(fs) THEN NoFactor
    ELSE LET f == fs[i]
             provider == AsString(f.provider)
             fType == AsString(f.factorType)
         IN IF ~f.obj THEN ScanEmailOrPhone(u, fs, identifier, i + 1)
            ELSE IF ~provider.ok \/ provider.s # "OKTA"
                 THEN ScanEmailOrPhone(u, fs, identifier, i + 1)
            ELSE IF ~fType.ok THEN ScanEmailOrPhone(u, fs, identifier, i + 1)
            ELSE IF MatchesEmailOrPhone(u, fType.s, identifier)
                 THEN [factorID |-> AsString(f.id).s, factorType |-> fType.s]
            ELSE ScanEmailOrPhone(u, fs, identifier, i + 1)

\* for _, f := range factors { ... } of VerifyPasscode, from index i on
RECURSIVE ScanPasscode(_, _, _, _)
ScanPasscode(u, fs, identifier, i) ==
    IF i > Len(fs) THEN NoFactor
    ELSE LET f == fs[i]
             provider == AsString(f.provider)
             fType == AsString(f.factorType)
         IN IF ~f.obj THEN ScanPasscode(u, fs, identifier, i + 1)
            ELSE IF ~provider.ok \/ provider.s # "OKTA"
                 THEN ScanPasscode(u, fs, identifier, i + 1)
            ELSE IF ~fType.ok THEN ScanPasscode(u, fs, identifier, i + 1)
            ELSE IF MatchesPasscode(u, fType.s, identifier)
                 THEN [factorID |-> AsString(f.id).s, factorType |-> fType.s]
            ELSE ScanPasscode(u, fs, identifier, i + 1)

\* ------------------------------------------------------------------ control
Awaiting == pc \in {"register", "GetUser", "GetUserFactors", "verify"}
VerifyOps == {"VerifyEmailOrPhone", "VerifyPasscode"}

MkArgs(c, identifier, passcode, req) ==
    [ctx |-> c, identifier |-> identifier, passcode |-> passcode, req |-> req]
NoResult == [val |-> "", err |-> NoErr]
NothingKept == [op |-> "none", identifier |-> "", val |-> "", fid |-> ""]

\* the value an operation returns next to a non-nil error
ZeroVal(oname) ==
    CASE oname = "GetUser" -> ZeroUser
      [] oname = "GetUserFactors" -> <<>>
      [] OTHER -> ""

\* the call blocks in HTTPClient.Do for request `step`
Goto(step, c, u, fs, fid, ft, rq, lo) ==
    /\ pc' = step /\ ctx' = c
    /\ user' = u /\ factors' = fs /\ factorID' = fid /\ factorType' = ft
    /\ result' = NoResult
    /\ reqs' = rq /\ lastOut' = lo
    /\ UNCHANGED <<kept, other, world, sdk>>

\* the call returns (val, err): its frame is gone
Ret(oname, val, err, rq, lo) ==
    /\ pc' = "done" /\ ctx' = "none"
    /\ user' = ZeroUser /\ factors' = <<>> /\ factorID' = "" /\ factorType' = ""
    /\ result' = [val |-> val, err |-> err]
    /\ reqs' = rq /\ lastOut' = lo
    /\ UNCHANGED <<kept, other, world, sdk>>

\* o.makeRequest(ctx, method, url, body) called with the frame (u, fs, fid, ft)
Issue(oname, c, base, step, method, url, body, u, fs, fid, ft, lo) ==
    LET mr == MakeRequest(o, c, method, url, body)
    IN IF mr.err # NoErr
       THEN Ret(oname, ZeroVal(oname), mr.err, Append(base, mr.inv), lo)
       ELSE Goto(step, c, u, fs, fid, ft, Append(base, mr.inv), lo)

\* a call frame: the arguments, the locals and the position of one call
Frame(fop, fargs, fpc, fctx, u, fs, fid, ft, res, rq, lo) ==
    [op |-> fop, args |-> fargs, pc |-> fpc, ctx |-> fctx, user |-> u,
     factors |-> fs, factorID |-> fid, factorType |-> ft, result |-> res,
     reqs |-> rq, lastOut |-> lo]
IdleFrame ==
    Frame("none", MkArgs("live", "", "", ZeroRegistration), "idle", "none",
          ZeroUser, <<>>, "", "", NoResult, <<>>, NoOut)

\* a provider that answers each endpoint in a fixed way
World(reg, gu, gf, vf) ==
    [register |-> reg, GetUser |-> gu, GetUserFactors |-> gf, verify |-> vf]
NoWorld == World(<<0, Garbage>>, <<0, Garbage>>, <<0, Garbage>>, <<0, Garbage>>)

\* ---- package internal/auth (okta.go): ValidateUser on the SDK client
\* filter: the string built for ListUsers, as its pieces; users, err: what
\* Execute returned; val, rerr: what ValidateUser returned
SdkCall(spc, email, phoneNumber, filter, queries, users, err, val, rerr) ==
    [pc |-> spc, email |-> email, phoneNumber |-> phoneNumber, filter |-> filter,
     queries |-> queries, users |-> users, err |-> err, val |-> val, rerr |-> rerr]
NoValidateUser == SdkCall("idle", "", "", <<>>, 0, <<>>, "", "", "")

Init ==
    /\ o = New("https://dev.okta.com", "api-token", "client-1", "secret")
    /\ ctx = "none"
    /\ op = "none"
    /\ args = MkArgs("live", "", "", ZeroRegistration)
    /\ pc = "idle"
    /\ user = ZeroUser /\ factors = <<>> /\ factorID = "" /\ factorType = ""
    /\ result = NoResult
    /\ reqs = <<>>
    /\ lastOut = NoOut
    /\ kept = NothingKept
    /\ other = IdleFrame
    /\ world = NoWorld
    /\ sdk = NoValidateUser

\* ------------------------------------------------------- RegisterUser
\* variant: the login is tested in place of the mobile phone
RegistrationInvalidByLogin(r) == r.Profile.Email = "" /\ r.Profile.Login = ""

\* "Validate that at least one of email or mobilePhone is provided."
RegistrationInvalid(r) == r.Profile.Email = "" /\ r.Profile.MobilePhone = ""

\* variant: the mobile phone is preferred to the email
DefaultLoginPhoneFirst(r) ==
    IF r.Profile.Login = ""
    THEN IF r.Profile.MobilePhone # ""
         THEN [r EXCEPT !.Profile.Login = r.Profile.MobilePhone]
         ELSE [r EXCEPT !.Profile.Login = r.Profile.Email]
    ELSE r

\* "If login is not provided, set it to email (if available) or mobilePhone."
DefaultLogin(r) ==
    IF r.Profile.Login = ""
    THEN IF r.Profile.Email # ""
         THEN [r EXCEPT !.Profile.Login = r.Profile.Email]
         ELSE [r EXCEPT !.Profile.Login = r.Profile.MobilePhone]
    ELSE r

CallRegisterUser(c, r) ==
    /\ pc = "idle"
    /\ op' = "RegisterUser"
    /\ args' = MkArgs(c, "", "", r)
    /\ IF RegistrationInvalid(r)
       THEN Ret("RegisterUser", "", ErrValidation, <<>>, NoOut)
       ELSE LET req == DefaultLogin(r)
            IN Issue("RegisterUser", c, <<>>, "register", "POST",
                     UsersURL(o.Domain, req.Activate), MarshalRegistration(req),
                     ZeroUser, <<>>, "", "", NoOut)
    /\ UNCHANGED o

RegisterUserReturns(out) ==
    /\ op = "RegisterUser" /\ pc = "register"
    /\ LET r == RegisterUserResult(o, out)
       IN Ret(op, r.val, r.err, reqs, out)

\* ------------------------------------------------------- GetUser
CallGetUser(c, identifier) ==
    /\ pc = "idle"
    /\ op' = "GetUser"
    /\ args' = MkArgs(c, identifier, "", ZeroRegistration)
    /\ Issue("GetUser", c, <<>>, "GetUser", "GET", UserURL(o.Domain, identifier),
             NilBody, ZeroUser, <<>>, "", "", NoOut)
    /\ UNCHANGED o

GetUserReturns(out) ==
    /\ op = "GetUser" /\ pc = "GetUser"
    /\ LET r == GetUserResult(out)
       IN Ret(op, r.val, r.err, reqs, out)

\* ------------------------------------------------------- GetUserFactors
CallGetUserFactors(c, userID) ==
    /\ pc = "idle"
    /\ op' = "GetUserFactors"
    /\ args' = MkArgs(c, userID, "", ZeroRegistration)
    /\ Issue("GetUserFactors", c, <<>>, "GetUserFactors", "GET",
             FactorsURL(o.Domain, userID), NilBody, ZeroUser, <<>>, "", "", NoOut)
    /\ UNCHANGED o

GetUserFactorsReturns(out) ==
    /\ op = "GetUserFactors" /\ pc = "GetUserFactors"
    /\ LET r == GetUserFactorsResult(out)
       IN Ret(op, r.val, r.err, reqs, out)

\* ------------------------------------------------------- VerifyEmailOrPhone
CallVerifyEmailOrPhone(c, identifier) ==
    /\ pc = "idle"
    /\ op' = "VerifyEmailOrPhone"
    /\ args' = MkArgs(c, identifier, "", ZeroRegistration)
    /\ Issue("VerifyEmailOrPhone", c, <<>>, "GetUser", "GET",
             UserURL(o.Domain, identifier), NilBody, ZeroUser, <<>>, "", "", NoOut)
    /\ UNCHANGED o

\* variant: the error of GetUser is dropped and the flow goes on
VerifyEmailOrPhoneIgnoresLookupError(out) ==
    /\ op = "VerifyEmailOrPhone" /\ pc = "GetUser"
    /\ LET r == GetUserResult(out)
       IN Issue(op, ctx, reqs, "GetUserFactors", "GET",
                FactorsURL(o.Domain, r.val.ID), NilBody, r.val, <<>>, "", "", out)

\* "1. Get the user." returned; on success "2. Find the email or SMS factor."
VerifyEmailOrPhoneAfterGetUser(out) ==
    /\ op = "VerifyEmailOrPhone" /\ pc = "GetUser"
    /\ LET r == GetUserResult(out)
       IN IF r.err # NoErr
          THEN Ret(op, "", r.err, reqs, out)
          ELSE Issue(op, ctx, reqs, "GetUserFactors", "GET",
                     FactorsURL(o.Domain, r.val.ID), NilBody,
                     r.val, <<>>, "", "", out)

\* variant: the URL of the challenge is built from the identifier
VerifyEmailOrPhoneByIdentifier(out) ==
    /\ op = "VerifyEmailOrPhone" /\ pc = "GetUserFactors"
    /\ LET r == GetUserFactorsResult(out)
           m == ScanEmailOrPhone(user, r.val, args.identifier, 1)
       IN IF r.err # NoErr
          THEN Ret(op, "", r.err, reqs, out)
          ELSE IF m.factorID = ""
          THEN Ret(op, "", ErrFactorNotFound, reqs, out)
          ELSE Issue(op, ctx, reqs, "verify", "POST",
                     VerifyURL(o.Domain, args.identifier, m.factorID), NilBody,
                     user, r.val, m.factorID, m.factorType, out)

\* GetUserFactors returned; the loop, the check of factorID and
\* "3. Trigger verification challenge."
VerifyEmailOrPhoneAfterFactors(out) ==
    /\ op = "VerifyEmailOrPhone" /\ pc = "GetUserFactors"
    /\ LET r == GetUserFactorsResult(out)
           m == ScanEmailOrPhone(user, r.val, args.identifier, 1)
       IN IF r.err # NoErr
          THEN Ret(op, "", r.err, reqs, out)
          ELSE IF m.factorID = ""
          THEN Ret(op, "", ErrFactorNotFound, reqs, out)
          ELSE Issue(op, ctx, reqs, "verify", "POST",
                     VerifyURL(o.Domain, user.ID, m.factorID), NilBody,
                     user, r.val, m.factorID, m.factorType, out)

\* the challenge POST returned
VerifyEmailOrPhoneAfterChallenge(out) ==
    /\ op = "VerifyEmailOrPhone" /\ pc = "verify"
    /\ LET r == ChallengeResult(factorType, out)
       IN Ret(op, r.val, r.err, reqs, out)

\* ------------------------------------------------------- VerifyPasscode
CallVerifyPasscode(c, identifier, passcode) ==
    /\ pc = "idle"
    /\ op' = "VerifyPasscode"
    /\ args' = MkArgs(c, identifier, passcode, ZeroRegistration)
    /\ Issue("VerifyPasscode", c, <<>>, "GetUser", "GET",
             UserURL(o.Domain, identifier), NilBody, ZeroUser, <<>>, "", "", NoOut)
    /\ UNCHANGED o

\* variant: a failed GetUser is tried again
VerifyPasscodeRetriesLookup(out) ==
    /\ op = "VerifyPasscode" /\ pc = "GetUser"
    /\ LET r == GetUserResult(out)
       IN IF r.err # NoErr
          THEN Issue(op, ctx, reqs, "GetUser", "GET",
                     UserURL(o.Domain, args.identifier), NilBody,
                     ZeroUser, <<>>, "", "", out)
          ELSE Issue(op, ctx, reqs, "GetUserFactors", "GET",
                     FactorsURL(o.Domain, r.val.ID), NilBody,
                     r.val, <<>>, "", "", out)

VerifyPasscodeAfterGetUser(out) ==
    /\ op = "VerifyPasscode" /\ pc = "GetUser"
    /\ LET r == GetUserResult(out)
       IN IF r.err # NoErr
          THEN Ret(op, "", r.err, reqs, out)
          ELSE Issue(op, ctx, reqs, "GetUserFactors", "GET",
                     FactorsURL(o.Domain, r.val.ID), NilBody,
                     r.val, <<>>, "", "", out)

\* variant: the entries are read with single-value type assertions, which
\* panic on an entry that is not an object with string provider and type
VerifyPasscodeAssertsEntries(out) ==
    /\ op = "VerifyPasscode" /\ pc = "GetUserFactors"
    /\ LET r == GetUserFactorsResult(out)
           m == ScanPasscode(user, r.val, args.identifier, 1)
       IN IF r.err # NoErr
          THEN Ret(op, "", r.err, reqs, out)
          ELSE IF \E i \in 1..Len(r.val) :
                     ~(r.val[i].obj /\ r.val[i].provider.str /\ r.val[i].factorType.str)
          THEN /\ pc' = "panic" /\ lastOut' = out
               /\ UNCHANGED <<ctx, user, factors, factorID, factorType, result,
                              reqs, kept, other, world, sdk>>
          ELSE IF m.factorID = ""
          THEN Ret(op, "", ErrFactorNotFound, reqs, out)
          ELSE Issue(op, ctx, reqs, "verify", "POST",
                     VerifyURL(o.Domain, user.ID, m.factorID),
                     MarshalVerify(VerifyFactorRequest(args.passcode)),
                     user, r.val, m.factorID, m.factorType, out)

\* variant: the factor of the verification the caller started is used again
VerifyPasscodeReusesFactor(out) ==
    /\ op = "VerifyPasscode" /\ pc = "GetUserFactors"
    /\ LET r == GetUserFactorsResult(out)
           m == ScanPasscode(user, r.val, args.identifier, 1)
           fid == IF kept.op = "VerifyEmailOrPhone" /\ kept.identifier = args.identifier
                  THEN kept.fid ELSE m.factorID
       IN IF r.err # NoErr
          THEN Ret(op, "", r.err, reqs, out)
          ELSE IF m.factorID = ""
          THEN Ret(op, "", ErrFactorNotFound, reqs, out)
          ELSE Issue(op, ctx, reqs, "verify", "POST",
                     VerifyURL(o.Domain, user.ID, fid),
                     MarshalVerify(VerifyFactorRequest(args.passcode)),
                     user, r.val, fid, m.factorType, out)

\* GetUserFactors returned; the loop, the check of factorID and
\* "3. Verify the passcode."
VerifyPasscodeAfterFactors(out) ==
    /\ op = "VerifyPasscode" /\ pc = "GetUserFactors"
    /\ LET r == GetUserFactorsResult(out)
           m == ScanPasscode(user, r.val, args.identifier, 1)
       IN IF r.err # NoErr
          THEN Ret(op, "", r.err, reqs, out)
          ELSE IF m.factorID = ""
          THEN Ret(op, "", ErrFactorNotFound, reqs, out)
          ELSE Issue(op, ctx, reqs, "verify", "POST",
                     VerifyURL(o.Domain, user.ID, m.factorID),
                     MarshalVerify(VerifyFactorRequest(args.passcode)),
                     user, r.val, m.factorID, m.factorType, out)

\* the verify POST returned
VerifyPasscodeAfterVerify(out) ==
    /\ op = "VerifyPasscode" /\ pc = "verify"
    /\ LET r == PasscodeResult(o, factorType, out)
       IN Ret(op, r.val, r.err, reqs, out)

\* ------------------------------------------------------- the environment
\* the blocked call goes on with the outcome of its makeRequest
Resume(out) ==
    \/ RegisterUserReturns(out)
    \/ GetUserReturns(out)
    \/ GetUserFactorsReturns(out)
    \/ VerifyEmailOrPhoneAfterGetUser(out)
    \/ VerifyEmailOrPhoneAfterFactors(out)
    \/ VerifyEmailOrPhoneAfterChallenge(out)
    \/ VerifyPasscodeAfterGetUser(out)
    \/ VerifyPasscodeAfterFactors(out)
    \/ VerifyPasscodeAfterVerify(out)

\* the provider answers: Do returns the response
Respond ==
    /\ Awaiting
    /\ \E a \in ProviderAnswers(pc) : Resume(RespOut(a[1], a[2]))
    /\ UNCHANGED <<o, op, args>>

\* Do returns an error: the client timeout, a network failure, or the
\* context of the call, once it is cancelled
DoFails ==
    /\ Awaiting
    /\ \E cause \in DoCauses :
        /\ cause = "context canceled" => ctx = "cancelled"
        /\ Resume(ErrOut(TransportErr(cause)))
    /\ UNCHANGED <<o, op, args>>

\* the caller cancels the context during a request
CtxDone ==
    /\ Awaiting /\ ctx = "live"
    /\ ctx' = "cancelled"
    /\ UNCHANGED <<o, op, args, pc, user, factors, factorID, factorType, result,
                   reqs, lastOut, kept, other, world, sdk>>

\* the caller of ExampleAuth_VerifyEmailOrPhone takes what the call returned
\* (sessionToken, err := ...VerifyEmailOrPhone(...); clientID, err =
\* ...VerifyPasscode(...)) and keeps it when err is nil
CallerTakes ==
    /\ pc = "done"
    /\ pc' = "idle"
    /\ kept' = IF op \in VerifyOps /\ result.err = NoErr
               THEN [op |-> op, identifier |-> args.identifier, val |-> result.val,
                     fid |-> reqs[3].url.fid]
               ELSE kept
    /\ op' = "none"
    /\ args' = MkArgs("live", "", "", ZeroRegistration)
    /\ result' = NoResult /\ reqs' = <<>> /\ lastOut' = NoOut
    /\ UNCHANGED <<o, ctx, user, factors, factorID, factorType, other, world, sdk>>

Call ==
    \E c \in CtxStates :
        \/ \E r \in Registrations : CallRegisterUser(c, r)
        \/ \E i \in Identifiers : CallGetUser(c, i)
        \/ \E i \in Identifiers : CallGetUserFactors(c, i)
        \/ \E i \in Identifiers : CallVerifyEmailOrPhone(c, i)
        \/ \E i \in Identifiers, p \in Passcodes : CallVerifyPasscode(c, i, p)

Next == Call \/ Respond \/ DoFails \/ CtxDone \/ CallerTakes

Spec == Init /\ [][Next]_vars

\* ------------------------------------------- two calls on the same client
\* One *Auth is shared by two goroutines, each making one call; the
\* variables above hold the frame of the goroutine that runs, `other` the
\* frame of the one that does not.  The provider answers each endpoint in
\* a fixed way.
WorldUser == MkUser("u1", "a@x.com", "+1555")
EmailFirst ==
    << FactorObj(JStr("OKTA"), JStr("email"), JStr("f1")),
       FactorObj(JStr("OKTA"), JStr("sms"), JStr("f2")) >>
SmsFirst ==
    << FactorObj(JStr("OKTA"), JStr("sms"), JStr("f2")),
       FactorObj(JStr("OKTA"), JStr("email"), JStr("f1")) >>
Rejection == <<404, ErrorBody("E0000007", "Not found")>>
Worlds ==
    { World(reg, gu, gf, vf) :
        reg \in {<<StatusOK, UserBody(WorldUser)>>, Rejection},
        gu \in {<<StatusOK, UserBody(WorldUser)>>, Rejection},
        gf \in {<<StatusOK, ArrayBody(EmailFirst)>>, <<StatusOK, ArrayBody(SmsFirst)>>},
        vf \in {<<StatusAccepted, TokenBody("tok123")>>, Rejection} }

InitConc ==
    /\ o = New("https://dev.okta.com", "api-token", "client-1", "secret")
    /\ ctx = "none"
    /\ op = "none"
    /\ args = MkArgs("live", "", "", ZeroRegistration)
    /\ pc = "idle"
    /\ user = ZeroUser /\ factors = <<>> /\ factorID = "" /\ factorType = ""
    /\ result = NoResult
    /\ reqs = <<>>
    /\ lastOut = NoOut
    /\ kept = NothingKept
    /\ other = IdleFrame
    /\ world \in Worlds
    /\ sdk = NoValidateUser

\* the goroutine that runs makes its call
CallConc ==
    \/ \E r \in Registrations : CallRegisterUser("live", r)
    \/ \E i \in Identifiers : CallGetUser("live", i)
    \/ \E i \in Identifiers : CallGetUserFactors("live", i)
    \/ \E i \in Identifiers : CallVerifyEmailOrPhone("live", i)
    \/ \E i \in Identifiers, p \in Passcodes : CallVerifyPasscode("live", i, p)

\* the provider answers the request the running goroutine waits on
Answer ==
    /\ Awaiting
    /\ Resume(RespOut(world[pc][1], world[pc][2]))
    /\ UNCHANGED <<o, op, args>>

\* variant: factorType is one variable shared by the calls
SwitchSharingFactorType ==
    /\ other' = Frame(op, args, pc, ctx, user, factors, factorID, factorType,
                      result, reqs, lastOut)
    /\ op' = other.op /\ args' = other.args /\ pc' = other.pc /\ ctx' = other.ctx
    /\ user' = other.user /\ factors' = other.factors
    /\ factorID' = other.factorID
    /\ result' = other.result /\ reqs' = other.reqs /\ lastOut' = other.lastOut
    /\ UNCHANGED <<o, kept, world, factorType, sdk>>

\* the scheduler runs the other goroutine: arguments and locals belong to
\* the call, the receiver o is the one thing the two calls have in common
Switch ==
    /\ other' = Frame(op, args, pc, ctx, user, factors, factorID, factorType,
                      result, reqs, lastOut)
    /\ op' = other.op /\ args' = other.args /\ pc' = other.pc /\ ctx' = other.ctx
    /\ user' = other.user /\ factors' = other.factors
    /\ factorID' = other.factorID /\ factorType' = other.factorType
    /\ result' = other.result /\ reqs' = other.reqs /\ lastOut' = other.lastOut
    /\ UNCHANGED <<o, kept, world, sdk>>

NextConc == CallConc \/ Answer \/ Switch

SpecConc == InitConc /\ [][NextConc]_vars

\* ------------------------------------- package internal/auth: ValidateUser
MaxUsers == 2
SdkEmails == {"", "a@x.com", "b@x.com"}
SdkPhones == {"", "+1555", "+1666"}
SdkUserIDs == {"00u1", "00u2", "00u3"}
\* users, _, err := req.Execute(): an error, or a list of users
ExecuteOutcomes ==
    { [users |-> <<>>, err |-> "okta: request failed"] } \cup
    { [users |-> us, err |-> ""] : us \in SeqsUpTo(SdkUserIDs, MaxUsers) }

\* variant: the phone number is preferred to the email
ValidateUserFilterPhoneFirst(email, phoneNumber) ==
    IF phoneNumber # "" THEN <<"profile.phoneNumber eq \"", phoneNumber, "\"">>
    ELSE IF email # "" THEN <<"profile.email eq \"", email, "\"">>
    ELSE <<>>

\* the if / else if that builds filter; <<>> when neither branch is taken
ValidateUserFilter(email, phoneNumber) ==
    IF email # "" THEN <<"profile.email eq \"", email, "\"">>
    ELSE IF phoneNumber # "" THEN <<"profile.phoneNumber eq \"", phoneNumber, "\"">>
    ELSE <<>>

\* the other package does not run
AuthIdle ==
    UNCHANGED <<o, ctx, op, args, pc, user, factors, factorID, factorType, result,
                reqs, lastOut, kept, other, world>>

\* ValidateUser up to req.Execute()
CallValidateUser(email, phoneNumber) ==
    /\ sdk.pc = "idle"
    /\ LET filter == ValidateUserFilter(email, phoneNumber)
       IN sdk' = IF filter = <<>>
                 THEN SdkCall("done", email, phoneNumber, <<>>, 0, <<>>, "", "",
                              "either email or phone number must be provided")
                 ELSE SdkCall("ListUsers", email, phoneNumber, filter, 1, <<>>, "",
                              "", "")
    /\ AuthIdle

\* req.Execute() returned
ValidateUserAfterExecute(out) ==
    /\ sdk.pc = "ListUsers"
    /\ sdk' = IF out.err # ""
              THEN [sdk EXCEPT !.pc = "done", !.users = out.users, !.err = out.err,
                               !.val = "", !.rerr = out.err]
              ELSE IF Len(out.users) = 0
              THEN [sdk EXCEPT !.pc = "done", !.users = out.users,
                               !.val = "", !.rerr = "user not found"]
              ELSE [sdk EXCEPT !.pc = "done", !.users = out.users,
                               !.val = out.users[1], !.rerr = ""]
    /\ AuthIdle

\* the caller has the result
ValidateUserTaken ==
    /\ sdk.pc = "done"
    /\ sdk' = NoValidateUser
    /\ AuthIdle

NextSDK ==
    \/ \E e \in SdkEmails, p \in SdkPhones : CallValidateUser(e, p)
    \/ \E out \in ExecuteOutcomes : ValidateUserAfterExecute(out)
    \/ ValidateUserTaken

SpecSDK == Init /\ [][NextSDK]_vars

\* ===================================================================
\* Properties
\* ===================================================================

\* the call went on from the request it waited on; lastOut' is what Do returned
Resumed == Awaiting /\ pc' # pc

\* the matching predicate of the specification, for one list element
Qualifies(u, f, identifier) ==
    /\ f.obj
    /\ f.provider = JStr("OKTA")
    /\ f.factorType.str
    /\ \/ /\ f.factorType.v = "email" /\ u.Email # ""
          /\ identifier \in {u.Email, u.ID}
       \/ /\ f.factorType.v = "sms" /\ u.MobilePhone # ""
          /\ identifier \in {u.MobilePhone, u.ID}

\* i is the lowest index of fs that qualifies
FirstQualifying(u, fs, identifier, i) ==
    /\ i \in 1..Len(fs)
    /\ Qualifies(u, fs[i], identifier)
    /\ \A j \in 1..(i - 1) : ~Qualifies(u, fs[j], identifier)

\* C1: in VerifyEmailOrPhone and VerifyPasscode a failed sub-step ends the
\* call: after a failed lookup no further request is made, after a failed
\* factors request or a list without a matching factor no verify POST is
\* made, and the call returns the error of the sub-step that failed.
ShortCircuit ==
    [][ (op \in VerifyOps /\ Resumed) =>
          LET gu == GetUserResult(lastOut')
              gf == GetUserFactorsResult(lastOut')
              stops(e) == /\ pc' = "done" /\ reqs' = reqs
                          /\ result' = [val |-> "", err |-> e]
          IN /\ (pc = "GetUser" /\ gu.err # NoErr) => stops(gu.err)
             /\ (pc = "GetUserFactors" /\ gf.err # NoErr) => stops(gf.err)
             /\ (pc = "GetUserFactors" /\ gf.err = NoErr
                   /\ \A i \in 1..Len(gf.val) :
                          ~Qualifies(user, gf.val[i], args.identifier))
                  => stops(ErrFactorNotFound) ]_vars

\* a verification call that ended at a lookup the provider rejected
ShortCircuitWitness ==
    /\ pc = "done" /\ op \in VerifyOps
    /\ Len(reqs) = 1 /\ reqs[1].sent
    /\ lastOut.kind = "resp" /\ lastOut.status = 404
    /\ result.err.kind = "provider"

\* C2: when matching succeeds the factor ID and type used are those of the
\* lowest-index factor of the returned list that satisfies the predicate.
FirstMatchWins ==
    [][ (op \in VerifyOps /\ Resumed /\ pc = "GetUserFactors" /\ Len(reqs') = 3) =>
          LET fs == lastOut'.body.items
          IN \E i \in 1..Len(fs) :
                /\ FirstQualifying(user, fs, args.identifier, i)
                /\ fs[i].id.str
                /\ reqs'[3].url.fid = fs[i].id.v
                /\ reqs'[3].url.id = user.ID
                /\ pc' = "verify" =>
                      /\ factorID' = fs[i].id.v
                      /\ factorType' = fs[i].factorType.v ]_vars

\* two factors with different IDs qualify and the first one is used
FirstMatchWinsWitness ==
    /\ pc = "verify" /\ op \in VerifyOps
    /\ Len(factors) = 2
    /\ Qualifies(user, factors[1], args.identifier)
    /\ Qualifies(user, factors[2], args.identifier)
    /\ factors[1].id # factors[2].id
    /\ factorID = factors[1].id.v
    /\ reqs[3].url.fid = factorID

\* the provider answered the factors request with a list, and the call
\* went on with it
GotFactorList ==
    /\ op \in VerifyOps /\ Resumed /\ pc = "GetUserFactors"
    /\ GetUserFactorsResult(lastOut').err = NoErr

\* C3 as stated: the call fails with factor-not-found exactly when no
\* factor of the list satisfies the predicate; with a qualifying factor it
\* goes on to the verify POST.
NotFoundIffNoneQualifies ==
    [][ GotFactorList =>
          LET fs == lastOut'.body.items
              some == \E i \in 1..Len(fs) : Qualifies(user, fs[i], args.identifier)
          IN /\ (result'.err = ErrFactorNotFound) <=> ~some
             /\ some => Len(reqs') = 3 ]_vars

\* C4: the call fails with factor-not-found and makes no verify POST when
\* the list is empty, when no factor has provider "OKTA", and when no
\* factor's type has a non-empty profile field of the identity behind it.
NotFoundCases ==
    [][ GotFactorList =>
          LET fs == lastOut'.body.items
              noOkta == \A i \in 1..Len(fs) : fs[i].provider # JStr("OKTA")
              noField == \A i \in 1..Len(fs) :
                            ~ \/ fs[i].factorType = JStr("email") /\ user.Email # ""
                              \/ fs[i].factorType = JStr("sms") /\ user.MobilePhone # ""
          IN (fs = <<>> \/ noOkta \/ noField) =>
                /\ pc' = "done" /\ reqs' = reqs
                /\ result' = [val |-> "", err |-> ErrFactorNotFound] ]_vars

\* factor-not-found for a user looked up by ID whose only factor is an OKTA
\* email factor while the profile has no email
NotFoundCasesWitness ==
    /\ pc = "done" /\ op \in VerifyOps
    /\ result.err = ErrFactorNotFound
    /\ Len(reqs) = 2
    /\ args.identifier = reqs[2].url.id
    /\ lastOut.body.kind = "array" /\ Len(lastOut.body.items) = 1
    /\ lastOut.body.items[1].provider = JStr("OKTA")
    /\ lastOut.body.items[1].factorType = JStr("email")
    /\ lastOut.body.items[1].id = JStr("f1")

\* the challenge POST of VerifyEmailOrPhone was sent and answered
PostAnswered ==
    /\ Len(reqs) = 3 /\ reqs[3].method = "POST" /\ reqs[3].sent
    /\ lastOut.kind = "resp"

\* C5: VerifyEmailOrPhone returns no error exactly when the challenge POST
\* was answered with 200 or 202 and a decodable body, and then returns the
\* sessionToken of that body; otherwise it returns an error and no token.
StartSucceedsOn200Or202 ==
    (pc = "done" /\ op = "VerifyEmailOrPhone") =>
        /\ result.err = NoErr <=>
              /\ PostAnswered
              /\ lastOut.status \in {200, 202}
              /\ lastOut.body.kind = "object"
        /\ result.err = NoErr => result.val = lastOut.body.sessionToken
        /\ result.err # NoErr => result.val = ""

\* the 202 scenario of the specification
StartSucceedsWitness ==
    /\ pc = "done" /\ op = "VerifyEmailOrPhone"
    /\ args.identifier = "a@x.com"
    /\ PostAnswered /\ lastOut.status = 202
    /\ result = [val |-> "tok123", err |-> NoErr]

\* C6: VerifyPasscode returns no error exactly when the verify POST was
\* answered with a status in 200..299; it then returns the configured
\* ClientID, whatever the identity ID and the body, on every call.
CompleteReturnsClientID ==
    (pc = "done" /\ op = "VerifyPasscode") =>
        /\ result.err = NoErr <=> (PostAnswered /\ lastOut.status \in 200..299)
        /\ result.err = NoErr =>
              /\ result.val = o.ClientID
              /\ result.val # reqs[3].url.id
        /\ result.err # NoErr => result.val = ""
        /\ (result.err = NoErr /\ kept.op = "VerifyPasscode") =>
              result.val = kept.val

\* a successful VerifyPasscode repeated for the same identifier, answered
\* 204 with a body that is not JSON
CompleteReturnsClientIDWitness ==
    /\ pc = "done" /\ op = "VerifyPasscode"
    /\ kept.op = "VerifyPasscode" /\ kept.identifier = args.identifier
    /\ PostAnswered /\ lastOut.status = 204 /\ lastOut.body.kind = "garbage"
    /\ result.err = NoErr

\* C7 as stated: the verify request of VerifyPasscode carries the token
\* the preceding successful VerifyEmailOrPhone returned to the caller for
\* the same identifier.
CompleteCarriesToken ==
    (op = "VerifyPasscode" /\ Len(reqs) = 3
       /\ kept.op = "VerifyEmailOrPhone" /\ kept.identifier = args.identifier) =>
        reqs[3].body.stateToken = kept.val

\* C8: RegisterUser with email and mobile phone both empty returns the
\* validation error and makes no HTTP request.
RegisterValidates ==
    (pc = "done" /\ op = "RegisterUser"
       /\ args.req.Profile.Email = "" /\ args.req.Profile.MobilePhone = "") =>
        /\ result = [val |-> "", err |-> ErrValidation]
        /\ reqs = <<>>
        /\ lastOut = NoOut

\* a rejected registration that has a login and a live context
RegisterValidatesWitness ==
    /\ pc = "done" /\ op = "RegisterUser"
    /\ args.req.Profile.Email = "" /\ args.req.Profile.MobilePhone = ""
    /\ args.req.Profile.Login # "" /\ args.ctx = "live"
    /\ result.err = ErrValidation

\* the context was done when it was passed to the operation
PreCancelled == pc = "done" /\ args.ctx # "live"

\* C9 as stated: with a context that is done when passed, every operation
\* fails with a transport error before a response is processed, for every
\* input.
PreCancelledAlwaysTransportError ==
    PreCancelled =>
        /\ result.err.kind \in {"timeout", "network"}
        /\ lastOut.kind # "resp"

\* C9 amended: with a context that is done when passed, no request is
\* sent and no response processed; the operation fails with the transport
\* error of the context, unless the input is rejected before Do is reached
\* (registration without email and phone, or a URL that does not parse).
PreCancelledFailsBeforeResponse ==
    PreCancelled =>
        /\ lastOut = NoOut
        /\ \A i \in 1..Len(reqs) : ~reqs[i].sent
        /\ Len(reqs) <= 1
        /\ IF op = "RegisterUser" /\ args.req.Profile.Email = ""
              /\ args.req.Profile.MobilePhone = ""
           THEN result.err = ErrValidation
           ELSE IF op # "RegisterUser" /\ args.identifier = BadIdent
           THEN result.err = ErrCreateRequest
           ELSE IF args.ctx = "cancelled"
           THEN result.err = ErrRequestFailed("context canceled")
           ELSE result.err = ErrTimedOut("context deadline exceeded")

\* a verification started with a cancelled context
PreCancelledWitness ==
    /\ PreCancelled /\ op = "VerifyEmailOrPhone" /\ args.ctx = "cancelled"
    /\ args.identifier = "a@x.com"
    /\ result.err.kind = "network"

\* the strings an error built by fmt.Errorf shows besides its message
ErrShows(e) == {e.ftype, e.summary, e.cause}

\* C10 as stated: a rejection with a decodable ErrorResponse yields an
\* error that carries the status, the errorCode and the errorSummary.
ProviderErrorCarriesCode ==
    (pc = "done" /\ lastOut.kind = "resp" /\ lastOut.status >= 300
       /\ lastOut.body.kind = "object") =>
        /\ result.err.status = lastOut.status
        /\ result.err.summary = lastOut.body.errorSummary
        /\ lastOut.body.errorCode \in ErrShows(result.err)

\* the i-th request of a verification call: GET user, GET factors, POST verify
StepShape(i, r) ==
    CASE i = 1 -> r.method = "GET" /\ r.url = UserURL(o.Domain, args.identifier)
      [] i = 2 -> r.method = "GET" /\ r.url = FactorsURL(o.Domain, r.url.id)
      [] i = 3 -> r.method = "POST" /\ r.url = VerifyURL(o.Domain, r.url.id, r.url.fid)
      [] OTHER -> FALSE

RequestsInOrder ==
    /\ Len(reqs) <= 3
    /\ op \in VerifyOps => \A i \in 1..Len(reqs) : StepShape(i, reqs[i])
    /\ op \notin VerifyOps => Len(reqs) <= 1
    /\ \A i \in 1..Len(reqs) : i < Len(reqs) => reqs[i].sent
    /\ Awaiting => reqs # <<>> /\ reqs[Len(reqs)].sent

\* C11: the requests of one call are a prefix of <GET user, GET factors,
\* POST verify> for the two verification operations and at most one request
\* for the others, never more than three; a further request is made only by
\* the call resuming with a 200 response to the previous one, so nothing is
\* sent again after a transport failure or a non-success response.
BoundedRoundTrips ==
    [][/\ RequestsInOrder'
       /\ (reqs # <<>> /\ reqs' # reqs /\ reqs' # <<>>) =>
            /\ Awaiting
            /\ reqs' = Append(reqs, reqs'[Len(reqs')])
            /\ lastOut'.kind = "resp" /\ lastOut'.status = StatusOK
            /\ \A i \in 1..Len(reqs) : reqs'[Len(reqs')].url # reqs[i].url]_vars

BoundedRoundTripsWitness ==
    /\ pc = "done" /\ op = "VerifyPasscode" /\ result.err = NoErr
    /\ Len(reqs) = 3 /\ \A i \in 1..3 : reqs[i].sent

\* ---- a call that runs from its first statement to its return with no
\* other call in between, against the provider w
\* o.makeRequest: what it hands back to the operation
DoAlone(c, method, url, body, answer) ==
    LET mr == MakeRequest(o, c, method, url, body)
    IN IF mr.err # NoErr THEN ErrOut(mr.err) ELSE RespOut(answer[1], answer[2])

RegisterUserAlone(w, c, r) ==
    IF RegistrationInvalid(r)
    THEN [val |-> "", err |-> ErrValidation]
    ELSE LET req == DefaultLogin(r)
         IN RegisterUserResult(o, DoAlone(c, "POST", UsersURL(o.Domain, req.Activate),
                                          MarshalRegistration(req), w.register))

GetUserAlone(w, c, identifier) ==
    GetUserResult(DoAlone(c, "GET", UserURL(o.Domain, identifier), NilBody, w.GetUser))

GetUserFactorsAlone(w, c, userID) ==
    GetUserFactorsResult(DoAlone(c, "GET", FactorsURL(o.Domain, userID), NilBody,
                                 w.GetUserFactors))

VerifyEmailOrPhoneAlone(w, c, identifier) ==
    LET gu == GetUserAlone(w, c, identifier)
        gf == GetUserFactorsAlone(w, c, gu.val.ID)
        m == ScanEmailOrPhone(gu.val, gf.val, identifier, 1)
    IN IF gu.err # NoErr THEN [val |-> "", err |-> gu.err]
       ELSE IF gf.err # NoErr THEN [val |-> "", err |-> gf.err]
       ELSE IF m.factorID = "" THEN [val |-> "", err |-> ErrFactorNotFound]
       ELSE ChallengeResult(m.factorType,
                            DoAlone(c, "POST", VerifyURL(o.Domain, gu.val.ID, m.factorID),
                                    NilBody, w.verify))

VerifyPasscodeAlone(w, c, identifier, passcode) ==
    LET gu == GetUserAlone(w, c, identifier)
        gf == GetUserFactorsAlone(w, c, gu.val.ID)
        m == ScanPasscode(gu.val, gf.val, identifier, 1)
    IN IF gu.err # NoErr THEN [val |-> "", err |-> gu.err]
       ELSE IF gf.err # NoErr THEN [val |-> "", err |-> gf.err]
       ELSE IF m.factorID = "" THEN [val |-> "", err |-> ErrFactorNotFound]
       ELSE PasscodeResult(o, m.factorType,
                           DoAlone(c, "POST", VerifyURL(o.Domain, gu.val.ID, m.factorID),
                                   MarshalVerify(VerifyFactorRequest(passcode)), w.verify))

Alone(w, oname, a) ==
    CASE oname = "RegisterUser" -> RegisterUserAlone(w, a.ctx, a.req)
      [] oname = "GetUser" -> GetUserAlone(w, a.ctx, a.identifier)
      [] oname = "GetUserFactors" -> GetUserFactorsAlone(w, a.ctx, a.identifier)
      [] oname = "VerifyEmailOrPhone" -> VerifyEmailOrPhoneAlone(w, a.ctx, a.identifier)
      [] oname = "VerifyPasscode" ->
            VerifyPasscodeAlone(w, a.ctx, a.identifier, a.passcode)
      [] OTHER -> NoResult

Running ==
    Frame(op, args, pc, ctx, user, factors, factorID, factorType, result, reqs, lastOut)

\* C12: no operation writes a field of the client, and whatever the
\* interleaving of two calls on it, a call returns what it returns when it
\* runs alone against the same provider, after its own lookup and its own
\* factor discovery.
CallsIndependent ==
    /\ o = New("https://dev.okta.com", "api-token", "client-1", "secret")
    /\ \A f \in {Running, other} :
          f.pc = "done" =>
            /\ f.result = Alone(world, f.op, f.args)
            /\ (f.op \in VerifyOps /\ f.result.err = NoErr) =>
                  /\ Len(f.reqs) = 3
                  /\ f.reqs[1].url = UserURL(o.Domain, f.args.identifier)
                  /\ f.reqs[2].url = FactorsURL(o.Domain, world.GetUser[2].id)

CallsIndependentWitness ==
    /\ pc = "done" /\ op = "VerifyEmailOrPhone" /\ result.err = NoErr
    /\ args.identifier = "a@x.com"
    /\ other.pc = "verify" /\ other.op = "VerifyPasscode"
    /\ other.args.identifier = "+1555" /\ other.factorType = "sms"

\* C13: VerifyPasscode takes nothing from an earlier VerifyEmailOrPhone: the
\* factor its POST addresses is the first qualifying factor of the list it
\* fetched itself, for the identity it looked up itself, also when the
\* caller started the verification of the same identifier on another factor.
CompleteRediscovers ==
    [][ (op = "VerifyPasscode" /\ GotFactorList) =>
          LET fs == lastOut'.body.items
              first == { i \in 1..Len(fs) : FirstQualifying(user, fs, args.identifier, i) }
          IN /\ Len(reqs') = 3 =>
                   \E i \in first :
                      reqs'[3].url = VerifyURL(o.Domain, user.ID, fs[i].id.v)
             /\ (\E i \in first : fs[i].id.str /\ fs[i].id.v # "") => Len(reqs') = 3
             /\ first = {} => result'.err = ErrFactorNotFound ]_vars

\* the caller started the verification on one factor; the provider's list
\* is another one now and VerifyPasscode addresses another factor
CompleteRediscoversWitness ==
    /\ pc = "verify" /\ op = "VerifyPasscode"
    /\ kept.op = "VerifyEmailOrPhone" /\ kept.identifier = args.identifier
    /\ kept.fid # "" /\ kept.fid # factorID
    /\ reqs[3].url.fid = factorID
    /\ \A i \in 1..Len(factors) : factors[i].id # JStr(kept.fid)

\* C14: the login of the registration body is the login the caller set;
\* when the caller set none it is the email if there is one and the mobile
\* phone otherwise.
LoginDefaulted ==
    (op = "RegisterUser" /\ reqs # <<>>) =>
        LET p == args.req.Profile
            b == reqs[1].body
        IN /\ b.kind = "registration"
           /\ p.Login # "" => b.login = p.Login
           /\ (p.Login = "" /\ p.Email # "") => b.login = p.Email
           /\ (p.Login = "" /\ p.Email = "") => b.login = p.MobilePhone
           /\ b.email = p.Email /\ b.mobilePhone = p.MobilePhone

\* a registration with email and phone and no login was sent
LoginDefaultedWitness ==
    /\ op = "RegisterUser" /\ pc = "register" /\ reqs[1].sent
    /\ args.req.Profile.Login = ""
    /\ args.req.Profile.Email # "" /\ args.req.Profile.MobilePhone # ""
    /\ reqs[1].body.login = args.req.Profile.Email

\* the provider answered the POST of RegisterUser
RegisterAnswered ==
    /\ pc = "done" /\ op = "RegisterUser"
    /\ reqs # <<>> /\ reqs[1].sent /\ lastOut.kind = "resp"

\* C15 as stated: a valid RegisterUser returns no error exactly when the
\* POST was answered 2xx with a decodable body, and then returns the
\* configured ClientID; every non-2xx answer gives a provider error and no
\* identifier.
RegisterNon2xxIsProviderError ==
    (pc = "done" /\ op = "RegisterUser" /\ ~RegistrationInvalid(args.req)) =>
        /\ result.err = NoErr <=>
              (RegisterAnswered /\ Is2xx(lastOut.status) /\ Decodable(lastOut.body))
        /\ result.err = NoErr => result.val = o.ClientID
        /\ (RegisterAnswered /\ ~Is2xx(lastOut.status)) =>
              (result.err.kind = "provider" /\ result.val = "")

\* C15 amended: as above, but a non-2xx answer gives the provider error,
\* with the status and the summary, only when its body decodes as an
\* ErrorResponse; otherwise it gives a decode error with the status. No
\* identifier is returned in either case.
RegisterSucceedsOn2xx ==
    (pc = "done" /\ op = "RegisterUser" /\ ~RegistrationInvalid(args.req)) =>
        /\ result.err = NoErr <=>
              (RegisterAnswered /\ Is2xx(lastOut.status) /\ Decodable(lastOut.body))
        /\ result.err = NoErr =>
              (result.val = o.ClientID /\ result.val # lastOut.body.id)
        /\ result.err # NoErr => result.val = ""
        /\ (RegisterAnswered /\ ~Is2xx(lastOut.status)) =>
              IF Decodable(lastOut.body)
              THEN result.err = ErrProvider("failed to register user", "",
                                            lastOut.status, lastOut.body.errorSummary)
              ELSE /\ result.err.kind = "decode"
                   /\ result.err.status = lastOut.status

\* a registration answered 204 with the created user, and ClientID returned
RegisterSucceedsOn2xxWitness ==
    /\ RegisterAnswered /\ lastOut.status = 204
    /\ lastOut.body.id = "u1"
    /\ result = [val |-> "client-1", err |-> NoErr]

\* the provider answered the one request of GetUser or GetUserFactors
LookupAnswered ==
    /\ pc = "done" /\ op \in {"GetUser", "GetUserFactors"}
    /\ reqs # <<>> /\ reqs[1].sent /\ lastOut.kind = "resp"

\* C16: GetUser returns a user exactly when the answer has status 200 and
\* a body that decodes; any other status, other 2xx ones included, gives an
\* error and no user, and the rejection of an unknown identifier comes back
\* as the provider error built from the answer. GetUserFactors does the
\* same for the factor list.
LookupSucceedsOnlyOn200 ==
    /\ (pc = "done" /\ op = "GetUser") =>
          /\ result.err = NoErr <=>
                (LookupAnswered /\ lastOut.status = 200 /\ lastOut.body.kind = "object")
          /\ result.err = NoErr =>
                result.val = MkUser(lastOut.body.id, lastOut.body.email,
                                    lastOut.body.mobilePhone)
          /\ result.err # NoErr => result.val = ZeroUser
          /\ (LookupAnswered /\ lastOut.status = 404 /\ lastOut.body \in ErrorBodies) =>
                result.err = ErrProvider("failed to get user", "", 404,
                                         lastOut.body.errorSummary)
    /\ (pc = "done" /\ op = "GetUserFactors") =>
          /\ result.err = NoErr <=>
                (LookupAnswered /\ lastOut.status = 200 /\ lastOut.body.kind = "array")
          /\ result.err = NoErr => result.val = lastOut.body.items
          /\ result.err # NoErr => result.val = <<>>
          /\ (LookupAnswered /\ lastOut.status = 404 /\ lastOut.body \in ErrorBodies) =>
                result.err = ErrProvider("failed to get user factors", "", 404,
                                         lastOut.body.errorSummary)

\* GetUser answered 202 with a user in the body returns an error
LookupSucceedsOnlyOn200Witness ==
    /\ LookupAnswered /\ op = "GetUser"
    /\ lastOut.status = 202 /\ lastOut.body.id = "u1"
    /\ result.err.kind = "provider" /\ result.val = ZeroUser

\* the list in the opposite order
Reverse(fs) == [i \in 1..Len(fs) |-> fs[Len(fs) + 1 - i]]

\* C17: the factor a verification call selected is a function of the
\* identity, the list and the identifier (the first qualifying entry), and
\* the order of the list decides: for an identity looked up by its ID, when
\* the first and the last qualifying entry are an email factor and an SMS
\* factor, the loop run on the list in the opposite order selects the other
\* one.
MatchingOrderSensitive ==
    (pc = "verify" /\ op \in VerifyOps) =>
        LET sel == [factorID |-> factorID, factorType |-> factorType]
            q == { i \in 1..Len(factors) : Qualifies(user, factors[i], args.identifier) }
            first == CHOOSE i \in q : \A j \in q : i <= j
            last == CHOOSE i \in q : \A j \in q : j <= i
            swapped == IF op = "VerifyEmailOrPhone"
                       THEN ScanEmailOrPhone(user, Reverse(factors), args.identifier, 1)
                       ELSE ScanPasscode(user, Reverse(factors), args.identifier, 1)
        IN /\ \E i \in q :
                /\ \A j \in q : i <= j
                /\ sel = [factorID |-> factors[i].id.v,
                          factorType |-> factors[i].factorType.v]
           /\ (/\ args.identifier = user.ID
               /\ {factors[first].factorType.v, factors[last].factorType.v}
                     = {"email", "sms"}) =>
                 /\ swapped.factorType = factors[last].factorType.v
                 /\ swapped.factorID = AsString(factors[last].id).s
                 /\ swapped # sel

\* looked up by ID, the email factor is listed before the SMS factor and
\* is the one selected
MatchingOrderSensitiveWitness ==
    /\ pc = "verify" /\ op = "VerifyEmailOrPhone"
    /\ args.identifier = user.ID
    /\ Len(factors) = 2
    /\ Qualifies(user, factors[1], args.identifier) /\ factors[1].factorType.v = "email"
    /\ Qualifies(user, factors[2], args.identifier) /\ factors[2].factorType.v = "sms"
    /\ factorType = "email"

\* C18: on every factor list a verification call receives, the loop of
\* VerifyEmailOrPhone and the loop of VerifyPasscode find the same factor ID
\* and type or both find none; the call that runs fails with
\* factor-not-found exactly when the other copy finds none, and otherwise
\* POSTs to /api/v1/users/{user.ID}/factors/{factor ID}/verify with the
\* factor the other copy finds.
CopiesAgree ==
    [][ GotFactorList =>
          LET fs == lastOut'.body.items
              start == ScanEmailOrPhone(user, fs, args.identifier, 1)
              complete == ScanPasscode(user, fs, args.identifier, 1)
              its == IF op = "VerifyEmailOrPhone" THEN complete ELSE start
          IN /\ start = complete
             /\ (pc' = "done" /\ result'.err = ErrFactorNotFound) <=> its.factorID = ""
             /\ its.factorID # "" =>
                   /\ Len(reqs') = 3
                   /\ reqs'[3].method = "POST"
                   /\ reqs'[3].url = VerifyURL(o.Domain, user.ID, its.factorID)
                   /\ reqs'[3].url.sub = "factors/verify"
                   /\ pc' = "verify" =>
                         (factorID' = its.factorID /\ factorType' = its.factorType) ]_vars

\* VerifyPasscode, looked up by ID, selected the SMS factor that
\* VerifyEmailOrPhone selects on the same list
CopiesAgreeWitness ==
    /\ pc = "verify" /\ op = "VerifyPasscode"
    /\ args.identifier = user.ID
    /\ factorType = "sms"
    /\ ScanEmailOrPhone(user, factors, args.identifier, 1) =
          [factorID |-> factorID, factorType |-> "sms"]
    /\ reqs[3].url = VerifyURL(o.Domain, user.ID, factorID)

\* the verify POST of a verification call is in flight; its URL has the ID
\* of the user GetUser returned and the ID of the matched factor
VerifyPostFromIdentity ==
    /\ reqs[3].method = "POST"
    /\ reqs[3].url = VerifyURL(o.Domain, user.ID, factorID)
    /\ reqs[2].url = FactorsURL(o.Domain, user.ID)
    /\ reqs[1].url = UserURL(o.Domain, args.identifier)
    /\ \E i \in 1..Len(factors) : factors[i].id = JStr(factorID)

WellFormed(f) == f.obj /\ f.provider.str /\ f.factorType.str

\* C20: whatever the entries of the factor list, the call that receives it
\* goes on to the verify POST or returns an error with no value; entries
\* that are not objects or have no string provider or factorType count for
\* nothing: the outcome is the one of the list without them.
MalformedEntriesSkipped ==
    [][ GotFactorList =>
          LET fs == lastOut'.body.items
              clean == SelectSeq(fs, WellFormed)
              m == IF op = "VerifyEmailOrPhone"
                   THEN ScanEmailOrPhone(user, clean, args.identifier, 1)
                   ELSE ScanPasscode(user, clean, args.identifier, 1)
          IN /\ pc' \in {"verify", "done"}
             /\ pc' = "done" => (result'.err # NoErr /\ result'.val = "")
             /\ m.factorID = "" <=> (pc' = "done" /\ result'.err = ErrFactorNotFound)
             /\ m.factorID # "" =>
                   /\ Len(reqs') = 3 /\ reqs'[3].url.fid = m.factorID
                   /\ pc' = "verify" <=> reqs'[3].sent
                   /\ pc' = "verify" =>
                         (factorID' = m.factorID /\ factorType' = m.factorType) ]_vars

\* the list starts with an entry that is not an object and the factor
\* behind it is used
MalformedEntriesSkippedWitness ==
    /\ pc = "verify" /\ op \in VerifyOps
    /\ Len(factors) = 2
    /\ ~WellFormed(factors[1]) /\ ~factors[1].obj
    /\ factorID = factors[2].id.v /\ factorID # ""

\* the call returned and made at least one call of makeRequest
MadeRequest == pc = "done" /\ reqs # <<>>
LastRequest == reqs[Len(reqs)]
MakeRequestErrors == {"create", "timeout", "network"}

\* what C21 says of the errors of Do and of the responses
TransportTaxonomy ==
    LET r == LastRequest
        e == result.err
    IN /\ e.kind \in {"timeout", "network"} =>
             /\ e.kind = "timeout" <=> UrlErrTimeout(e.cause)
             /\ e.msg = IF UrlErrTimeout(e.cause) THEN "request timed out"
                        ELSE "request failed"
             /\ r.sent => lastOut = ErrOut(e)
       /\ (r.sent /\ lastOut.kind = "err") =>
             (e = lastOut.err /\ e.kind \in {"timeout", "network"})
       /\ (r.sent /\ lastOut.kind = "resp") => e.kind \notin MakeRequestErrors

\* C21 as stated: makeRequest fails on transport failures only, a timeout
\* as "request timed out" and any other as "request failed", and a response
\* that was received comes back without error whatever its status.
MakeRequestFailsOnlyOnTransport ==
    MadeRequest =>
        /\ TransportTaxonomy
        /\ result.err.kind \in MakeRequestErrors =>
              result.err.kind \in {"timeout", "network"}

\* C21 amended: makeRequest fails besides with "failed to create request",
\* before anything is sent, exactly when the URL cannot be parsed.
MakeRequestFailures ==
    MadeRequest =>
        /\ TransportTaxonomy
        /\ result.err.kind = "create" <=> ~ValidURL(LastRequest.url)
        /\ result.err.kind = "create" =>
              (result.err = ErrCreateRequest /\ ~LastRequest.sent)
        /\ (~LastRequest.sent /\ ValidURL(LastRequest.url)) =>
              result.err.kind \in {"timeout", "network"}

\* the client timeout passed during a request
MakeRequestFailuresWitness ==
    /\ MadeRequest /\ LastRequest.sent
    /\ lastOut.kind = "err"
    /\ result.err = ErrTimedOut("Client.Timeout exceeded")

\* C22: every request a call sent, at whatever step, has the headers
\* Accept: application/json, Content-Type: application/json and
\* Authorization: SSWS followed by the APIToken of the client.
RequestsCarryHeaders ==
    \A i \in 1..Len(reqs) :
        reqs[i].sent =>
            /\ reqs[i].header.Accept = "application/json"
            /\ reqs[i].header.ContentType = "application/json"
            /\ reqs[i].header.Authorization = <<"SSWS ", "api-token">>
            /\ reqs[i].header.Authorization[2] = o.APIToken

\* the three requests of VerifyEmailOrPhone, the POST without a body
RequestsCarryHeadersWitness ==
    /\ pc = "verify" /\ op = "VerifyEmailOrPhone"
    /\ Len(reqs) = 3 /\ \A i \in 1..3 : reqs[i].sent
    /\ reqs[3].method = "POST" /\ reqs[3].body = NilBody
    /\ reqs[3].header.Authorization = <<"SSWS ", o.APIToken>>

\* C23: ValidateUser with email and phone number both empty returns an
\* error and makes no query; otherwise it makes one query, filtered by the
\* email when there is one and by the phone number when there is none; it
\* returns "user not found" for an empty list and the ID of the first user
\* of the list otherwise.
ValidateUserContract ==
    /\ sdk.queries <= 1
    /\ sdk.pc = "ListUsers" => sdk.queries = 1
    /\ sdk.pc # "idle" =>
          /\ (sdk.email = "" /\ sdk.phoneNumber = "") <=> sdk.queries = 0
          /\ sdk.queries = 0 =>
                (sdk.pc = "done" /\ sdk.val = "" /\ sdk.rerr # "")
          /\ sdk.email # "" =>
                sdk.filter = <<"profile.email eq \"", sdk.email, "\"">>
          /\ (sdk.email = "" /\ sdk.phoneNumber # "") =>
                sdk.filter = <<"profile.phoneNumber eq \"", sdk.phoneNumber, "\"">>
    /\ (sdk.pc = "done" /\ sdk.queries = 1 /\ sdk.err = "") =>
          IF sdk.users = <<>>
          THEN sdk.val = "" /\ sdk.rerr = "user not found"
          ELSE sdk.val = sdk.users[1] /\ sdk.rerr = ""
    /\ (sdk.pc = "done" /\ sdk.err # "") => (sdk.val = "" /\ sdk.rerr = sdk.err)

\* email and phone number given, two users found, the first one returned
ValidateUserContractWitness ==
    /\ sdk.pc = "done"
    /\ sdk.email = "a@x.com" /\ sdk.phoneNumber = "+1555"
    /\ sdk.filter[2] = "a@x.com"
    /\ sdk.users = <<"00u2", "00u1">>
    /\ sdk.val = "00u2" /\ sdk.rerr = ""

====
